---------------------------- MODULE Spec2Model ----------------------------
(***************************************************************************)
(* Bisection solvers for the Dranchuk-Abou-Kassem Z-factor equation.       *)
(*                                                                         *)
(* The three calcZfactor_DAK variants of the repository are modelled over  *)
(* IEEE-754 binary64 arithmetic: every C `double` operation (+, -, *, /,   *)
(* comparison, fabs, exp) is an operator below that rounds to nearest,     *)
(* ties to even, with infinities, NaN and gradual underflow.               *)
(***************************************************************************)
EXTENDS Integers, Sequences, FiniteSets, TLC

(***************************************************************************)
(* Natural numbers of arbitrary size: little-endian sequences of limbs in  *)
(* 0 .. Base-1 without leading (high) zero limbs; zero is << >>.           *)
(***************************************************************************)
Base == 2 ^ 15

RECURSIVE IntBitLen(_)
IntBitLen(n) == IF n = 0 THEN 0 ELSE 1 + IntBitLen(n \div 2)

\* bits in a limb
LimbBits == IntBitLen(Base) - 1

Limb(x, i) == IF i <= Len(x) THEN x[i] ELSE 0

RECURSIVE NStrip(_)
NStrip(x) ==
  IF x = << >> THEN x
  ELSE IF x[Len(x)] # 0 THEN x
  ELSE NStrip(SubSeq(x, 1, Len(x) - 1))

RECURSIVE NFromInt(_)
NFromInt(n) == IF n = 0 THEN << >> ELSE <<n % Base>> \o NFromInt(n \div Base)

RECURSIVE NAddC(_, _, _, _)
NAddC(x, y, i, c) ==
  IF i > Len(x) /\ i > Len(y)
  THEN IF c = 0 THEN << >> ELSE <<c>>
  ELSE LET t == Limb(x, i) + Limb(y, i) + c
       IN  <<t % Base>> \o NAddC(x, y, i + 1, t \div Base)

NAdd(x, y) == NAddC(x, y, 1, 0)

RECURSIVE NSubC(_, _, _, _)
NSubC(x, y, i, c) ==
  IF i > Len(x) THEN << >>
  ELSE LET t == x[i] - Limb(y, i) - c
       IN  IF t < 0 THEN <<t + Base>> \o NSubC(x, y, i + 1, 1)
           ELSE <<t>> \o NSubC(x, y, i + 1, 0)

\* x - y for x >= y
NSub(x, y) == NStrip(NSubC(x, y, 1, 0))

RECURSIVE NCmpAt(_, _, _)
NCmpAt(x, y, i) ==
  IF i = 0 THEN 0
  ELSE IF x[i] < y[i] THEN -1
  ELSE IF x[i] > y[i] THEN 1
  ELSE NCmpAt(x, y, i - 1)

\* -1, 0, 1 as x < y, x = y, x > y
NCmp(x, y) ==
  IF Len(x) < Len(y) THEN -1
  ELSE IF Len(x) > Len(y) THEN 1
  ELSE NCmpAt(x, y, Len(x))

RECURSIVE NMulSmallC(_, _, _, _)
NMulSmallC(x, k, i, c) ==
  IF i > Len(x)
  THEN IF c = 0 THEN << >> ELSE <<c>>
  ELSE LET t == x[i] * k + c
       IN  <<t % Base>> \o NMulSmallC(x, k, i + 1, t \div Base)

\* x * k for 0 <= k < Base
NMulSmall(x, k) == IF k = 0 THEN << >> ELSE NMulSmallC(x, k, 1, 0)

Zeros(n) == [i \in 1 .. n |-> 0]

NShlLimbs(x, n) == IF x = << >> THEN x ELSE Zeros(n) \o x

RECURSIVE NMulAt(_, _, _)
NMulAt(x, y, i) ==
  IF i > Len(x) THEN << >>
  ELSE NAdd(NShlLimbs(NMulSmall(y, x[i]), i - 1), NMulAt(x, y, i + 1))

NMul(x, y) == NMulAt(x, y, 1)

RECURSIVE NDivSmallAt(_, _, _, _)
NDivSmallAt(x, k, i, r) ==
  IF i = 0 THEN << >>
  ELSE LET t == r * Base + x[i]
       IN  NDivSmallAt(x, k, i - 1, t % k) \o <<t \div k>>

\* floor(x / k) for 0 < k <= Base
NDivSmall(x, k) == NStrip(NDivSmallAt(x, k, Len(x), 0))

\* x * 2^n and floor(x / 2^n)
NShl(x, n) == NShlLimbs(NMulSmall(x, 2 ^ (n % LimbBits)), n \div LimbBits)

NShr(x, n) ==
  IF n \div LimbBits >= Len(x) THEN << >>
  ELSE NDivSmall(SubSeq(x, n \div LimbBits + 1, Len(x)), 2 ^ (n % LimbBits))

NBitLen(x) ==
  IF x = << >> THEN 0 ELSE (Len(x) - 1) * LimbBits + IntBitLen(x[Len(x)])

\* bit i (from 0) of x
NBit(x, i) == (Limb(x, i \div LimbBits + 1) \div 2 ^ (i % LimbBits)) % 2

\* some bit below bit n of x is set
NLowBits(x, n) ==
  \/ \E i \in 1 .. n \div LimbBits : Limb(x, i) # 0
  \/ Limb(x, n \div LimbBits + 1) % 2 ^ (n % LimbBits) # 0

NIsOdd(x) == x # << >> /\ x[1] % 2 = 1

Min(p, q) == IF p < q THEN p ELSE q
Max(p, q) == IF p > q THEN p ELSE q

(***************************************************************************)
(* Long division, a limb of the quotient at a time. d has its top bit at   *)
(* limb position, so the trial digit taken from the two top limbs of the   *)
(* running remainder is at most two too large.                             *)
(***************************************************************************)
RECURSIVE QFix(_, _, _, _)
QFix(r, d, q, t) ==
  IF NCmp(t, r) = 1 THEN QFix(r, d, q - 1, NSub(t, d))
  ELSE [q |-> q, r |-> NSub(r, t)]

QTry(r, d, q0) == QFix(r, d, q0, NMulSmall(d, q0))

QDigit(r, d) ==
  IF Len(r) < Len(d) THEN [q |-> 0, r |-> r]
  ELSE QTry(r, d, Min(Base - 1,
                      (Limb(r, Len(d) + 1) * Base + r[Len(d)]) \div d[Len(d)]))

\* limbs i, i-1, ... 1 of x brought down onto the remainder r; q is the
\* quotient so far
RECURSIVE NDivAt(_, _, _, _, _)
RECURSIVE NDivStep(_, _, _, _, _)
NDivAt(x, d, i, r, q) ==
  IF i = 0 THEN [q |-> NStrip(q), r |-> r]
  ELSE NDivStep(x, d, i, q,
                QDigit(IF r = << >> /\ x[i] = 0 THEN << >> ELSE <<x[i]>> \o r,
                       d))
NDivStep(x, d, i, q, qd) == NDivAt(x, d, i - 1, qd.r, <<qd.q>> \o q)

NDivScaled(xs, ds) == NDivAt(xs, ds, Len(xs), << >>, << >>)

NDivUnscale(res, s) == [q |-> res.q, r |-> NShr(res.r, s)]

\* d * 2^s has its top bit at the top of a limb
NDivNorm(x, d, s) == NDivUnscale(NDivScaled(NShl(x, s), NShl(d, s)), s)

\* [q |-> floor(x / d), r |-> x - q*d] for d # 0
NDivMod(x, d) == NDivNorm(x, d, LimbBits - IntBitLen(d[Len(d)]))

(***************************************************************************)
(* IEEE-754 binary64. A double is [k, s, m, e]: k is "num", "inf" or       *)
(* "nan", s the sign bit, and a finite value is (-1)^s * m * 2^e with      *)
(* 2^52 <= m < 2^53 (normal), or m < 2^52 and e = EMin (subnormal, zero). *)
(***************************************************************************)
MantBits == 53
EMin == -1074
EMax == 1024

NaN == [k |-> "nan", s |-> 0, m |-> << >>, e |-> 0]
Inf(s) == [k |-> "inf", s |-> s, m |-> << >>, e |-> 0]
Zero(s) == [k |-> "num", s |-> s, m |-> << >>, e |-> EMin]

IsNaN(x) == x.k = "nan"
IsInf(x) == x.k = "inf"
IsZero(x) == x.k = "num" /\ x.m = << >>
Xor(s, t) == (s + t) % 2

\* a rounded significand m of len bits (at most 2^53) at exponent e >= EMin
PackLen(s, m, e, len) ==
  IF len = 0 THEN Zero(s)
  ELSE IF len > MantBits
  THEN (IF e + 1 + MantBits > EMax THEN Inf(s)
        ELSE [k |-> "num", s |-> s, m |-> NShr(m, 1), e |-> e + 1])
  ELSE IF e + MantBits > EMax THEN Inf(s)
  ELSE [k |-> "num", s |-> s, m |-> m, e |-> e]

Pack(s, m, e) == PackLen(s, m, e, NBitLen(m))

\* q = floor(M / 2^sh), rounded up or not on the bits of M below bit sh
RoundBits(M, sticky, sh, q) ==
  IF NBit(M, sh - 1) = 1 /\ (sticky \/ NLowBits(M, sh - 1) \/ NIsOdd(q))
  THEN NAdd(q, <<1>>)
  ELSE q

RoundTo(s, M, E, sticky, e1) ==
  Pack(s,
       IF e1 <= E THEN NShl(M, E - e1)
       ELSE RoundBits(M, sticky, e1 - E, NShr(M, e1 - E)),
       e1)

\* the double nearest to (-1)^s * (M + d) * 2^E, ties to even, where
\* 0 < d < 1 if sticky and d = 0 otherwise
Round(s, M, E, sticky) ==
  IF M = << >> THEN Zero(s)
  ELSE RoundTo(s, M, E, sticky, Max(E + NBitLen(M) - MantBits, EMin))

\* the double of an integer 0 <= n < 2^31
FInt(n) == Round(0, NFromInt(n), 0, FALSE)

FNeg(x) == IF IsNaN(x) THEN x ELSE [x EXCEPT !.s = 1 - x.s]
FAbs(x) == IF IsNaN(x) THEN x ELSE [x EXCEPT !.s = 0]

\* x + y for finite nonzero x, y with x.e >= y.e; A is x.m * 2^(x.e - y.e)
\* the sum of finite nonzero x and y, x.e >= y.e, before rounding: sign,
\* magnitude m, exponent and sticky flag; A = x.m * 2^(x.e - y.e) and
\* c compares A with y.m
AddAligned(x, y, A, c) ==
  [s |-> IF x.s = y.s \/ c = 1 THEN x.s ELSE IF c = 0 THEN 0 ELSE y.s,
   m |-> IF x.s = y.s THEN NAdd(A, y.m)
         ELSE IF c = 1 THEN NSub(A, y.m)
         ELSE IF c = 0 THEN << >>
         ELSE NSub(y.m, A),
   e |-> y.e,
   sticky |-> FALSE]

AddShifted(x, y, A) == AddAligned(x, y, A, NCmp(A, y.m))

\* y is below the rounding bits of x
AddFar(x, y) ==
  [s |-> x.s,
   m |-> IF x.s = y.s THEN NShl(x.m, 3) ELSE NSub(NShl(x.m, 3), <<1>>),
   e |-> x.e - 3,
   sticky |-> TRUE]

AddOrdered(x, y) ==
  IF x.e - y.e > MantBits + 8 THEN AddFar(x, y)
  ELSE AddShifted(x, y, NShl(x.m, x.e - y.e))

RoundSum(r) == Round(r.s, r.m, r.e, r.sticky)

FAdd(x, y) ==
  IF IsNaN(x) \/ IsNaN(y) THEN NaN
  ELSE IF IsInf(x) THEN (IF IsInf(y) /\ y.s # x.s THEN NaN ELSE x)
  ELSE IF IsInf(y) THEN y
  ELSE IF IsZero(x) THEN (IF IsZero(y) /\ x.s # y.s THEN Zero(0) ELSE y)
  ELSE IF IsZero(y) THEN x
  ELSE RoundSum(AddOrdered(IF x.e >= y.e THEN x ELSE y,
                           IF x.e >= y.e THEN y ELSE x))

FSub(x, y) == FAdd(x, FNeg(y))

FMul(x, y) ==
  IF IsNaN(x) \/ IsNaN(y) THEN NaN
  ELSE IF IsInf(x) \/ IsInf(y)
       THEN (IF IsZero(x) \/ IsZero(y) THEN NaN ELSE Inf(Xor(x.s, y.s)))
  ELSE IF IsZero(x) \/ IsZero(y) THEN Zero(Xor(x.s, y.s))
  ELSE Round(Xor(x.s, y.s), NMul(x.m, y.m), x.e + y.e, FALSE)

DivRounded(s, dm, E) == Round(s, dm.q, E, dm.r # << >>)

\* x / y for finite nonzero x, y from the quotient of x.m * 2^sh by y.m
DivShifted(x, y, sh) ==
  DivRounded(Xor(x.s, y.s), NDivMod(NShl(x.m, sh), y.m), x.e - y.e - sh)

FDiv(x, y) ==
  IF IsNaN(x) \/ IsNaN(y) THEN NaN
  ELSE IF IsInf(x) THEN (IF IsInf(y) THEN NaN ELSE Inf(Xor(x.s, y.s)))
  ELSE IF IsInf(y) THEN Zero(Xor(x.s, y.s))
  ELSE IF IsZero(y) THEN (IF IsZero(x) THEN NaN ELSE Inf(Xor(x.s, y.s)))
  ELSE IF IsZero(x) THEN Zero(Xor(x.s, y.s))
  ELSE DivShifted(x, y, Max(0, MantBits + 3 + NBitLen(y.m) - NBitLen(x.m)))

\* -1, 0, 1 as the finite d is negative, zero, positive
Sign(d) == IF IsZero(d) THEN 0 ELSE IF d.s = 1 THEN -1 ELSE 1

\* -1, 0, 1 as x < y, x == y, x > y, for x and y not NaN
FCmp(x, y) ==
  IF IsInf(x) /\ IsInf(y) /\ x.s = y.s THEN 0
  ELSE Sign(FSub(x, y))

\* the C comparisons: all false when an operand is NaN
FLt(x, y) == ~IsNaN(x) /\ ~IsNaN(y) /\ FCmp(x, y) = -1
FGt(x, y) == ~IsNaN(x) /\ ~IsNaN(y) /\ FCmp(x, y) = 1
FLe(x, y) == ~IsNaN(x) /\ ~IsNaN(y) /\ FCmp(x, y) # 1
FEq(x, y) == ~IsNaN(x) /\ ~IsNaN(y) /\ FCmp(x, y) = 0

(***************************************************************************)
(* exp of <math.h>.  C leaves its rounding to the library, and the library  *)
(* the code links returns a double next to the exact value, not always the *)
(* nearest one: FExp(x) is the set of the results exp(x) may have, the two *)
(* doubles that enclose the exact value (the exact results exp(+-0) = 1,   *)
(* exp(-inf) = 0, exp(inf) = inf and exp(NaN) = NaN are the only ones).    *)
(* x = n*ln2 + r with 0 <= r < ln2, exp(r) is summed from its power series *)
(* in fixed point with ExpBits fractional bits and scaled by 2^n.          *)
(***************************************************************************)
ExpBits == 7 * LimbBits
Ln2Fix == <<12295, 3790, 24143, 30618, 31289, 1533, 22713>>

ExpOne == NShl(<<1>>, ExpBits)

\* 1 + r + r^2/2! + ... in fixed point: acc is the sum up to the term of
\* index k - 1 and t the term of index k
RECURSIVE ExpSeries(_, _, _, _)
ExpSeries(r, t, k, acc) ==
  IF t = << >> THEN acc
  ELSE ExpSeries(r, NDivSmall(NShr(NMul(t, r), ExpBits), k + 1), k + 1,
                 NAdd(acc, t))

\* the doubles next below and next above (M + d) * 2^E, 0 < d < 1, where M
\* has more than MantBits bits: q is M without its bits below 2^e1
ExpEnclosing(q, e1) == {Pack(0, q, e1), Pack(0, NAdd(q, <<1>>), e1)}

ExpRounded(M, E, e1) == ExpEnclosing(NShr(M, e1 - E), e1)

ExpScaled(M, E) == ExpRounded(M, E, Max(E + NBitLen(M) - MantBits, EMin))

\* exp(n*ln2 + r) for the fixed-point 0 <= r < ln2
ExpReduced(n, r) == ExpScaled(ExpSeries(r, r, 1, ExpOne), n - ExpBits)

\* q and r: quotient and remainder of |x| by ln2 in fixed point
ExpSplit(s, q, r) ==
  ExpReduced(IF s = 0 THEN q ELSE IF r = << >> THEN -q ELSE -(q + 1),
             IF s = 0 \/ r = << >> THEN r ELSE NSub(Ln2Fix, r))

ExpQuot(s, dm) == ExpSplit(s, Limb(dm.q, 1), dm.r)

FExp(x) ==
  IF IsNaN(x) THEN {NaN}
  ELSE IF IsInf(x) THEN (IF x.s = 0 THEN {x} ELSE {Zero(0)})
  ELSE IF IsZero(x) THEN {FInt(1)}
  ELSE IF NBitLen(x.m) + x.e > 11 THEN (IF x.s = 0 THEN {Inf(0)} ELSE {Zero(0)})
  ELSE ExpQuot(x.s, NDivMod(IF x.e + ExpBits >= 0
                            THEN NShl(x.m, x.e + ExpBits)
                            ELSE NShr(x.m, -(x.e + ExpBits)),
                            Ln2Fix))

\* the double a decimal literal n * 10^-k denotes, for n < 2^31, k <= 9
Dec(n, k) == FDiv(FInt(n), FInt(10 ^ k))

\* the natural number whose decimal digits are those of hi followed by the
\* eight digits of lo
NDigits8(hi, lo) == NAdd(NMul(hi, NFromInt(10 ^ 8)), NFromInt(lo))

RECURSIVE NPow10(_)
NPow10(k) ==
  IF k <= 8 THEN NFromInt(10 ^ k)
  ELSE NMul(NPow10(k - 8), NFromInt(10 ^ 8))

\* the double a decimal literal of many digits denotes: N / D for the
\* naturals N and D, rounded once
DecRatio(N, D) ==
  DivShifted([s |-> 0, m |-> N, e |-> 0], [s |-> 0, m |-> D, e |-> 0],
             Max(0, MantBits + 3 + NBitLen(D) - NBitLen(N)))

DecLong(N, k) == DecRatio(N, NPow10(k))

(***************************************************************************)
(* The literals of the three source files.                                 *)
(***************************************************************************)
One == FInt(1)
Two == FInt(2)
Four == FInt(4)
L0_27 == Dec(27, 2)
L0_3265 == Dec(3265, 4)
L1_07 == Dec(107, 2)
L0_5339 == Dec(5339, 4)
L0_01569 == Dec(1569, 5)
L0_05165 == Dec(5165, 5)
L0_5475 == Dec(5475, 4)
L0_7361 == Dec(7361, 4)
L0_1844 == Dec(1844, 4)
L0_1056 == Dec(1056, 4)
L0_6134 == Dec(6134, 4)
L0_7210 == Dec(7210, 4)
L0_6 == Dec(6, 1)
L1_3 == Dec(13, 1)
L1em2 == Dec(1, 2)
L756_8 == Dec(7568, 1)
L131 == FInt(131)
L3_60 == Dec(360, 2)
L169_2 == Dec(1692, 1)
L349_5 == Dec(3495, 1)
L74 == FInt(74)
L5 == FInt(5)
L9 == FInt(9)
L101325 == FInt(101325)
L6894_757293168 ==
  FDiv(FAdd(FMul(FInt(6894757), FInt(10 ^ 6)), FInt(293168)), FInt(10 ^ 9))
L273_15 == Dec(27315, 2)
L3250 == FInt(3250)
L213 == FInt(213)
L32 == FInt(32)
L0_666 == Dec(666, 3)
L94_00000752 == DecLong(NDigits8(NFromInt(94), 752), 8)
L194_1666822 == Dec(1941666822, 7)
L41_1111144 == Dec(411111144, 7)
L14_695948775514218902863070110439 ==
  DecLong(NDigits8(NDigits8(NDigits8(NFromInt(14695948), 77551421),
                            89028630),
                   70110439),
          30)

\* double A[11] of the first array variant: A_0 is A[0], ..., A_10 is A[10]
A_0 == L0_3265
A_1 == FNeg(L1_07)
A_2 == FNeg(L0_5339)
A_3 == L0_01569
A_4 == FNeg(L0_05165)
A_5 == L0_5475
A_6 == FNeg(L0_7361)
A_7 == L0_1844
A_8 == L0_1056
A_9 == L0_6134
A_10 == L0_7210

\* a cap the bisection cannot meet: the faulty variant of maxIter that C3 is
\* tried against
ShortCap == 2 * 5

maxIter == 100

\* inv2: 0.5 in main.c and the second array variant, 1.0 / 2.0 in the first
inv2(v) == IF v = "v1" THEN FDiv(One, Two) ELSE Dec(5, 1)

\* epsilon: 2.0e-6 in main.c, 2 * 10e-6 in both array variants
epsilon(v) == IF v = "main" THEN Dec(2, 6) ELSE FMul(Two, Dec(10, 6))

\* the initial bracket
a0(v) == IF v = "v1" THEN L1em2 ELSE L0_6
b0(v) == IF v = "v1" THEN Four ELSE L1_3

(***************************************************************************)
(* src/main.c: the precomputed term C and the residual fun_DAK.            *)
(***************************************************************************)
Rr_z(Ppr, Tpr) == FMul(FMul(L0_27, Ppr), FDiv(One, Tpr))

\* lines 38-46, statement by statement: each local is a parameter of the
\* operator that models the statements after its assignment
C_main(Ppr, Tpr) ==
  LET Line46(Cx, tmp, RrZ) ==
        FAdd(Cx,
             FAdd(One,
                  FMul(FMul(FSub(FAdd(L0_5475, tmp),
                                 FMul(FMul(FMul(FMul(L0_1056, tmp), RrZ), RrZ),
                                      RrZ)),
                            RrZ),
                       RrZ)))
      Line43(invTpr, tmp, RrZ) ==
        Line46(FMul(FSub(FAdd(FSub(FSub(L0_3265, FMul(L1_07, invTpr)),
                                   FMul(FMul(L0_5339, tmp), invTpr)),
                              FMul(FMul(L0_01569, tmp), tmp)),
                         FMul(FMul(FMul(L0_05165, tmp), tmp), invTpr)),
                    RrZ),
               FAdd(FMul(FNeg(L0_7361), invTpr), FMul(L0_1844, tmp)),
               RrZ)
      Line39(invTpr) ==
        Line43(invTpr, FMul(invTpr, invTpr), FMul(FMul(L0_27, Ppr), invTpr))
  IN  Line39(FDiv(One, Tpr))

\* the values fun_DAK may return, one for each result of exp
fun_DAK_main(C, Rr, Tpr, z) ==
  LET C2(Rr2, tmp, e) ==
        FMul(FDiv(FMul(FMul(L0_6134, FAdd(One, tmp)), Rr2),
                  FMul(FMul(Tpr, Tpr), Tpr)),
             e)
      Line93(Rr2, tmp) ==
        {FSub(FSub(z, C), C2(Rr2, tmp, e)) : e \in FExp(FNeg(tmp))}
      Line92(Rr2) == Line93(Rr2, FMul(L0_7210, Rr2))
  IN  Line92(FMul(Rr, Rr))

(***************************************************************************)
(* src/unnamed/part_000, first variant (P, T, sg; arrays A and C).         *)
(***************************************************************************)
Ppc(sg) == FSub(FSub(L756_8, FMul(L131, sg)), FMul(FMul(L3_60, sg), sg))

Tpc(sg) ==
  FDiv(FMul(FSub(FAdd(L169_2, FMul(L349_5, sg)), FMul(FMul(L74, sg), sg)),
            L5),
       L9)

Ppr_v1(P, sg) == FDiv(FDiv(FMul(P, L101325), L6894_757293168), Ppc(sg))

Tpr_v1(T, sg) == FDiv(FAdd(T, L273_15), Tpc(sg))

\* C[0], C[1], C[2]
C_v1(Tpr) ==
  LET Line71(C0, tmp) == << C0, FAdd(A_5, tmp), FMul(A_8, tmp) >>
      Line70(C0, invTpr, tmp) ==
        Line71(C0, FAdd(FMul(A_6, invTpr), FMul(A_7, tmp)))
      Line68(invTpr, tmp) ==
        Line70(FAdd(FAdd(FAdd(FAdd(A_0, FMul(A_1, invTpr)),
                               FMul(FMul(A_2, tmp), invTpr)),
                          FMul(FMul(A_3, tmp), tmp)),
                     FMul(FMul(FMul(A_4, tmp), tmp), invTpr)),
               invTpr, tmp)
      Line65(invTpr) == Line68(invTpr, FMul(invTpr, invTpr))
  IN  Line65(FDiv(One, Tpr))

\* the values coeff_C3 may return, one for each result of exp
coeff_C3_v1(A9, A10, Rr, Tpr) ==
  LET Line136(Rr2, tmp) ==
        {FMul(FDiv(FMul(FMul(A9, FAdd(One, tmp)), Rr2),
                   FMul(FMul(Tpr, Tpr), Tpr)),
              e) : e \in FExp(FNeg(tmp))}
      Line135(Rr2) == Line136(Rr2, FMul(A10, Rr2))
  IN  Line135(FMul(Rr, Rr))

fun_DAK_v1(C, Rr, z) ==
  LET Line141(Rr2) ==
        FSub(FAdd(FSub(FSub(FSub(z, One), FMul(C[1], Rr)), FMul(C[2], Rr2)),
                  FMul(FMul(FMul(C[3], Rr2), Rr2), Rr)),
             C[4])
  IN  Line141(FMul(Rr, Rr))

(***************************************************************************)
(* src/unnamed/part_000, second variant (Ppr, Tpr; array C).               *)
(***************************************************************************)
C_v2(Tpr) ==
  LET Line211(C0, tmp) == << C0, FAdd(L0_5475, tmp), FMul(L0_1056, tmp) >>
      Line210(C0, invTpr, tmp) ==
        Line211(C0, FAdd(FMul(FNeg(L0_7361), invTpr), FMul(L0_1844, tmp)))
      Line208(invTpr, tmp) ==
        Line210(FSub(FAdd(FSub(FSub(L0_3265, FMul(L1_07, invTpr)),
                               FMul(FMul(L0_5339, tmp), invTpr)),
                          FMul(FMul(L0_01569, tmp), tmp)),
                     FMul(FMul(FMul(L0_05165, tmp), tmp), invTpr)),
               invTpr, tmp)
      Line205(invTpr) == Line208(invTpr, FMul(invTpr, invTpr))
  IN  Line205(FDiv(One, Tpr))

\* the values coeff_C3 may return, one for each result of exp
coeff_C3_v2(Rr, Tpr) ==
  LET Line260(Rr2, tmp) ==
        {FMul(FDiv(FMul(FMul(L0_6134, FAdd(One, tmp)), Rr2),
                   FMul(FMul(Tpr, Tpr), Tpr)),
              e) : e \in FExp(FNeg(tmp))}
      Line259(Rr2) == Line260(Rr2, FMul(L0_7210, Rr2))
  IN  Line259(FMul(Rr, Rr))

fun_DAK_v2(C, Rr, z) ==
  LET Line267(Rr2) ==
        FSub(FAdd(FSub(FSub(FSub(z, One), FMul(C[1], Rr)), FMul(C[2], Rr2)),
                  FMul(FMul(FMul(C[3], Rr2), Rr2), Rr)),
             C[4])
  IN  Line267(FMul(Rr, Rr))

(***************************************************************************)
(* One evaluation of the residual at a trial value x, as each variant does *)
(* it before and inside its loop: the reduced density of x, C[3] where     *)
(* there is one (stored into the array C), and fun_DAK.  The outcomes, one *)
(* for each result of exp: the array C and the residual f.                 *)
(***************************************************************************)
Eval(v, C, Ppr, Tpr, x) ==
  LET Arr1(C4, Rr) == [C |-> C4, f |-> fun_DAK_v1(C4, Rr, x)]
      Arr2(C4, Rr) == [C |-> C4, f |-> fun_DAK_v2(C4, Rr, x)]
      At(Rr) ==
        IF v = "main"
        THEN {[C |-> C, f |-> f] : f \in fun_DAK_main(C[1], Rr, Tpr, x)}
        ELSE IF v = "v1"
        THEN {Arr1(<<C[1], C[2], C[3], c3>>, Rr) :
                c3 \in coeff_C3_v1(A_9, A_10, Rr, Tpr)}
        ELSE {Arr2(<<C[1], C[2], C[3], c3>>, Rr) : c3 \in coeff_C3_v2(Rr, Tpr)}
  IN  At(FDiv(FMul(FMul(L0_27, Ppr), FDiv(One, Tpr)), x))

\* the values the residual at x may have
Residual(v, C, Ppr, Tpr, x) == {ev.f : ev \in Eval(v, C, Ppr, Tpr, x)}

\* the value of a local that has not been assigned yet; it is never read
Uninit == Zero(0)

\* the coefficients computed before the loop
Coefficients(v, Ppr, Tpr) ==
  IF v = "main" THEN <<C_main(Ppr, Tpr)>>
  ELSE IF v = "v1" THEN C_v1(Tpr) \o <<Uninit>>
  ELSE C_v2(Tpr) \o <<Uninit>>

\* the first array variant's test of the initial bracket
BracketCheck(fa, fb) ==
  IF FGt(FMul(fa, fb), Zero(0)) THEN "nobracket"
  ELSE IF FEq(fa, Zero(0)) THEN "a"
  ELSE IF FEq(fb, Zero(0)) THEN "b"
  ELSE "loop"

\* faulty variants of the two assignments below: the midpoint without the
\* factor inv2 (C10) and the width with + for - (C7)
MidpointNoHalf(v, a, b) == FAdd(a, b)
WidthOfSum(a, b) == FAbs(FAdd(b, a))

\* zn = (a + b) * inv2 and convergence = fabs(b - a)
Midpoint(v, a, b) == FMul(FAdd(a, b), inv2(v))
Width(a, b) == FAbs(FSub(b, a))

\* faulty variants of the if-chain below: the two replacements exchanged
\* (C4), and the chain without its case for a negative residual (C9)
BranchSwapped(v, fa, fb, fz) ==
  IF v = "v1"
  THEN IF FLt(FMul(fa, fz), Zero(0)) THEN "a"
       ELSE IF FLt(FMul(fb, fz), Zero(0)) THEN "b"
       ELSE IF FEq(fz, Zero(0)) THEN "break"
       ELSE "err"
  ELSE IF FGt(fz, Zero(0)) THEN "a"
       ELSE IF FLt(fz, Zero(0)) THEN "b"
       ELSE IF FEq(fz, Zero(0)) THEN "break"
       ELSE "err"

BranchNoNegative(v, fa, fb, fz) ==
  IF v = "v1"
  THEN IF FLt(FMul(fa, fz), Zero(0)) THEN "b"
       ELSE IF FEq(fz, Zero(0)) THEN "break"
       ELSE "err"
  ELSE IF FGt(fz, Zero(0)) THEN "b"
       ELSE IF FEq(fz, Zero(0)) THEN "break"
       ELSE "err"

\* the if-chain on the residual fz at the midpoint: the endpoint the
\* midpoint replaces ("a", "b"), "break", or "err" for return -2
Branch(v, fa, fb, fz) ==
  IF v = "v1"
  THEN IF FLt(FMul(fa, fz), Zero(0)) THEN "b"
       ELSE IF FLt(FMul(fb, fz), Zero(0)) THEN "a"
       ELSE IF FEq(fz, Zero(0)) THEN "break"
       ELSE "err"
  ELSE IF FGt(fz, Zero(0)) THEN "b"
       ELSE IF FLt(fz, Zero(0)) THEN "a"
       ELSE IF FEq(fz, Zero(0)) THEN "break"
       ELSE "err"

(***************************************************************************)
(* The calls checked: a variant and its arguments, (Ppr, Tpr) for main.c   *)
(* and the second array variant, (P, T, sg) for the first.                 *)
(***************************************************************************)
TinyTpr == Round(0, <<1>>, -240, FALSE)   \* 0x1p-240

\* the locals of the three callers, test() of main.c and the two main()
P_caller == FDiv(FMul(L3250, L6894_757293168), L101325)
T_caller == FDiv(FMul(FSub(L213, L32), L5), L9)
sg_caller == L0_666

\* Tpc, Ppr and Tpr of the main() of the second array variant
Tpc_main_v2(sg) ==
  FSub(FAdd(L94_00000752, FMul(L194_1666822, sg)),
       FMul(FMul(L41_1111144, sg), sg))

Ppr_main_v2(P, sg) ==
  FDiv(FMul(P, L14_695948775514218902863070110439), Ppc(sg))

Tpr_main_v2(T, sg) == FDiv(FAdd(T, L273_15), Tpc_main_v2(sg))

Calls == <<
  [v |-> "main", args |-> <<Ppr_v1(P_caller, sg_caller),
                            Tpr_v1(T_caller, sg_caller)>>],
  [v |-> "v1", args |-> <<P_caller, T_caller, sg_caller>>],
  [v |-> "v2", args |-> <<Ppr_main_v2(P_caller, sg_caller),
                          Tpr_main_v2(T_caller, sg_caller)>>],
  [v |-> "main", args |-> <<Dec(2958, 3), Dec(1867, 3)>>],
  [v |-> "main", args |-> <<Zero(0), Dec(15, 1)>>],
  [v |-> "main", args |-> <<Four, One>>],
  [v |-> "main", args |-> <<FInt(7), Dec(8, 1)>>],
  [v |-> "main", args |-> <<One, Zero(0)>>],
  [v |-> "main", args |-> <<Zero(0), TinyTpr>>],
  [v |-> "v2", args |-> <<Dec(2958, 3), Dec(1867, 3)>>],
  [v |-> "v2", args |-> <<Zero(0), Dec(15, 1)>>],
  [v |-> "v2", args |-> <<Two, One>>],
  [v |-> "v2", args |-> <<FInt(6), One>>],
  [v |-> "v2", args |-> <<One, Zero(0)>>],
  [v |-> "v1", args |-> <<FInt(200), FInt(100), Dec(666, 3)>>],
  [v |-> "v1", args |-> <<Zero(0), FInt(100), Dec(666, 3)>>],
  [v |-> "v1", args |-> <<FInt(5000), FInt(100), Dec(666, 3)>>],
  [v |-> "v1", args |-> <<FInt(10), FNeg(L273_15), Dec(666, 3)>>],
  [v |-> "v1", args |-> <<FInt(200), Zero(0), One>>],
  [v |-> "main", args |-> <<Zero(0), One>>],
  [v |-> "v2", args |-> <<Zero(0), FInt(3)>>],
  [v |-> "v2", args |-> <<Dec(133, 1), FInt(3)>>],
  [v |-> "v2", args |-> <<FInt(8), Dec(18, 1)>>],
  [v |-> "v1", args |-> <<FInt(421), FInt(65), Dec(666, 3)>>],
  [v |-> "v1", args |-> <<FInt(267), FInt(53), Dec(7, 1)>>],
  [v |-> "v1", args |-> <<FInt(421), FInt(137), Dec(6, 1)>>],
  [v |-> "main", args |-> <<FInt(3), Dec(15, 1)>>],
  [v |-> "v2", args |-> <<FInt(3), Dec(15, 1)>>] >>

\* how many of the calls above are checked
MaxCall == 27

VARIABLES v, args, Ppr, Tpr, C, a, b, fa, fb, zn, fz, z, i, convergence,
          pc, ret

vars == <<v, args, Ppr, Tpr, C, a, b, fa, fb, zn, fz, z, i, convergence,
          pc, ret>>

\* the call is entered with its arguments; the caller's z is 0.0
Init ==
  /\ \E call \in {Calls[n] : n \in 1 .. MaxCall} :
       v = call.v /\ args = call.args
  /\ Ppr = Uninit /\ Tpr = Uninit /\ C = << >>
  /\ a = Uninit /\ b = Uninit /\ fa = Uninit /\ fb = Uninit
  /\ zn = Uninit /\ fz = Uninit /\ convergence = Uninit
  /\ z = Zero(0)
  /\ i = 0
  /\ pc = "entry"
  /\ ret = << >>

\* everything before the loop: the coefficients, the bracket and, in the
\* first array variant, the residuals at the endpoints and their test
Setup ==
  /\ pc = "entry"
  /\ \E ppr \in {IF v = "v1" THEN Ppr_v1(args[1], args[3]) ELSE args[1]},
        tpr \in {IF v = "v1" THEN Tpr_v1(args[2], args[3]) ELSE args[2]} :
       \E c \in {Coefficients(v, ppr, tpr)} :
         \E ea \in IF v = "v1" THEN Eval(v, c, ppr, tpr, a0(v))
                   ELSE {[C |-> c, f |-> fa]} :
           \E eb \in IF v = "v1" THEN Eval(v, ea.C, ppr, tpr, b0(v))
                     ELSE {[C |-> c, f |-> fb]} :
             \E chk \in {IF v = "v1" THEN BracketCheck(ea.f, eb.f)
                         ELSE "loop"} :
               /\ Ppr' = ppr /\ Tpr' = tpr
               /\ a' = a0(v) /\ b' = b0(v)
               /\ C' = eb.C
               /\ fa' = ea.f
               /\ fb' = eb.f
               /\ z' = IF chk = "a" THEN a0(v)
                       ELSE IF chk = "b" THEN b0(v) ELSE z
               /\ pc' = IF chk = "loop" THEN "loop" ELSE "done"
               /\ ret' = IF chk = "nobracket" THEN <<-1>>
                         ELSE IF chk = "loop" THEN ret ELSE <<0>>
  /\ UNCHANGED <<v, args, zn, fz, i, convergence>>

\* the for statement: its condition and one pass through its body
Iterate ==
  /\ pc = "loop"
  /\ IF i >= maxIter
     THEN /\ pc' = "exit"
          /\ UNCHANGED <<C, a, b, fa, fb, zn, fz, z, i, convergence, ret>>
     ELSE \E mid \in {Midpoint(v, a, b)}, w \in {Width(a, b)} :
            /\ convergence' = w
            /\ zn' = IF v = "v1" THEN zn ELSE mid
            /\ z' = IF v = "v1" THEN mid ELSE z
            /\ IF FLe(w, epsilon(v))
               THEN /\ pc' = "exit"
                    /\ UNCHANGED <<C, a, b, fa, fb, fz, i, ret>>
               ELSE \E ev \in Eval(v, C, Ppr, Tpr, mid) :
                      \E br \in {Branch(v, fa, fb, ev.f)} :
                        /\ fz' = ev.f
                        /\ C' = ev.C
                        /\ b' = IF br = "b" THEN mid ELSE b
                        /\ a' = IF br = "a" THEN mid ELSE a
                        /\ fb' = IF v = "v1" /\ br = "b" THEN ev.f ELSE fb
                        /\ fa' = IF v = "v1" /\ br = "a" THEN ev.f ELSE fa
                        /\ i' = IF br \in {"a", "b"} THEN i + 1 ELSE i
                        /\ pc' = IF br = "break" THEN "exit"
                                 ELSE IF br = "err" THEN "done" ELSE "loop"
                        /\ ret' = IF br = "err" THEN <<-2>> ELSE ret
  /\ UNCHANGED <<v, args, Ppr, Tpr>>

\* after the loop: main.c and the second array variant store zn; return 0
Finish ==
  /\ pc = "exit"
  /\ z' = IF v = "v1" THEN z ELSE zn
  /\ ret' = <<0>>
  /\ pc' = "done"
  /\ UNCHANGED <<v, args, Ppr, Tpr, C, a, b, fa, fb, zn, fz, i, convergence>>

Next == Setup \/ Iterate \/ Finish

Spec == Init /\ [][Next]_vars


(***************************************************************************)
(* The properties checked.  The residual of the running variant at a       *)
(* trial value x, with the coefficients the call computed, is one of the   *)
(* values of TrialResidual(x), one for each result of exp:                 *)
(***************************************************************************)
TrialResidual(x) == Residual(v, C, Ppr, Tpr, x)

\* the DAK residual z - 1 - C0*Rr - C1*Rr^2 + C2*Rr^5 - C3(Rr) with
\* Rr = 0.27*Ppr/(Tpr*z) throughout, as the array variants compute it
DAKResidual(x) == Residual("v2", Coefficients("v2", Ppr, Tpr), Ppr, Tpr, x)

\* the trial value of the last pass through the loop body
Trial == IF v = "v1" THEN z ELSE zn

SameStrictSign(p, q) ==
  \/ FGt(p, Zero(0)) /\ FGt(q, Zero(0))
  \/ FLt(p, Zero(0)) /\ FLt(q, Zero(0))

OppositeStrictSign(p, q) ==
  \/ FLt(p, Zero(0)) /\ FGt(q, Zero(0))
  \/ FGt(p, Zero(0)) /\ FLt(q, Zero(0))

Within(x, y, tol) == FLe(FAbs(FSub(x, y)), tol)

\* C1: in every variant, a call whose residuals at the two initial
\* endpoints have the same strict sign returns -1 (and so never 0).
C1_NoBracketIsRejected ==
  /\ pc = "done"
  /\ \A p \in TrialResidual(a0(v)), q \in TrialResidual(b0(v)) :
       SameStrictSign(p, q)
  => ret = <<-1>>

\* C2: in every variant, the residual the loop evaluated at its trial value
\* is the DAK residual of that trial value, up to rounding (2^-40).
ResidualTol == Round(0, <<1>>, -40, FALSE)

C2_LoopResidualIsDAK ==
  pc = "loop" /\ i > 0
    => \E d \in DAKResidual(Trial) : Within(fz, d, ResidualTol)

\* C3: a call that returns 0 left its loop because the bracket width met the
\* tolerance or the residual at the midpoint was exactly zero, or, in the
\* first array variant, returned before the loop on an endpoint whose
\* residual is exactly zero; the loop is never left on the iteration cap.
C3_ZeroOnlyWhenConverged ==
  pc = "exit" \/ (pc = "done" /\ ret = <<0>>)
    => \/ FLe(convergence, epsilon(v))
       \/ FEq(fz, Zero(0))
       \/ v = "v1" /\ i = 0 /\ (FEq(fa, Zero(0)) \/ FEq(fb, Zero(0)))

\* a call has returned 0 from the tolerance test, before the cap
C3_Witness ==
  /\ pc = "done" /\ ret = <<0>>
  /\ i > 0 /\ i < maxIter
  /\ FLe(convergence, epsilon(v))

\* C4 as stated: for Ppr = 0 and any Tpr > 0, the call returns 0 and the z
\* it wrote is within epsilon of 1.0.
C4_IdealGasAnyTpr ==
  pc = "done" /\ IsZero(Ppr) /\ FGt(Tpr, Zero(0))
    => ret = <<0>> /\ Within(z, One, epsilon(v))

\* C4, amended: for Ppr = 0 and Tpr in the validated range 1.0 .. 3.0, the
\* call returns 0 and the z it wrote is within epsilon of 1.0.
ValidTpr == FLe(One, Tpr) /\ FLe(Tpr, FInt(3))

C4_IdealGasValidTpr ==
  pc = "done" /\ IsZero(Ppr) /\ ValidTpr
    => ret = <<0>> /\ Within(z, One, epsilon(v))

\* a call with Ppr = 0 and a valid Tpr has returned 0
C4_Witness == pc = "done" /\ IsZero(Ppr) /\ ValidTpr /\ ret = <<0>> /\ i > 0

\* C5: when a call returns 0 from the tolerance test, the residual at the z
\* it wrote is at most epsilon in magnitude.  Stated for the calls whose
\* final bracket still has residuals of strictly opposite signs at its
\* two ends, where the z written is as close to a root as the loop gets.
C5_ResidualWithinTolerance ==
  /\ pc = "done" /\ ret = <<0>> /\ i > 0 /\ FLe(convergence, epsilon(v))
  /\ \A p \in TrialResidual(a), q \in TrialResidual(b) :
       OppositeStrictSign(p, q)
  => \E r \in TrialResidual(z) : FLe(FAbs(r), epsilon(v))

\* C6: in every variant the tolerance is 2e-6: when the loop is left through
\* the tolerance test, the bracket width is at most 2e-6.
C6_ToleranceIs2em6 ==
  pc = "exit" /\ FLe(convergence, epsilon(v)) => FLe(Width(a, b), Dec(2, 6))

\* C7 as stated: an iteration that replaces an endpoint does not increase the
\* bracket width and makes it exactly half of the width before.
C7_WidthHalvesExactly ==
  pc = "loop" /\ i > 0
    => /\ FLe(Width(a, b), convergence)
       /\ FEq(FMul(Two, Width(a, b)), convergence)

\* C7, amended: an iteration that replaces an endpoint does not increase the
\* bracket width and makes it half of the width before up to the rounding
\* of the midpoint (2^-48).
HalvingTol == Round(0, <<1>>, -48, FALSE)

C7_WidthHalvesWithinRounding ==
  pc = "loop" /\ i > 0
    => /\ FLe(Width(a, b), convergence)
       /\ Within(FMul(Two, Width(a, b)), convergence, HalvingTol)

\* an endpoint has been replaced and twice the new width is not the old one
C7_Witness ==
  pc = "loop" /\ i > 0 /\ ~FEq(FMul(Two, Width(a, b)), convergence)

\* C8: in every variant, if the residuals at the initial endpoints have
\* strictly opposite signs, in either orientation, then after every
\* iteration the residuals at the current endpoints still have.
C8_SignChangeIsKept ==
  /\ pc = "loop"
  /\ \A p \in TrialResidual(a0(v)), q \in TrialResidual(b0(v)) :
       OppositeStrictSign(p, q)
  => \E p \in TrialResidual(a), q \in TrialResidual(b) :
       OppositeStrictSign(p, q)

\* C9: the return of -2 is reached only on a residual that is NaN: on every
\* residual fz that is not NaN the if-chain takes a branch before its final
\* else (in the first array variant: given endpoint residuals of strictly
\* opposite signs, as after the initial test of fa * fb).
C9_ErrorOnlyOnNaN ==
  /\ ret = <<-2>> => IsNaN(fz)
  /\ pc # "entry" /\ ~IsNaN(fz) /\ (v = "v1" => OppositeStrictSign(fa, fb))
       => Branch(v, fa, fb, fz) # "err"

\* the if-chain has replaced an endpoint on a residual that is not NaN
C9_Witness == pc = "loop" /\ i > 0 /\ ~IsNaN(fz) /\ ret = << >>

\* C10: once the bracket is set, a0 <= a < b <= b0; a never decreases and b
\* never increases; and the z of a return of 0 lies in [a0, b0].
C10_Inside ==
  pc # "entry"
    => /\ FLe(a0(v), a) /\ FLt(a, b) /\ FLe(b, b0(v))
       /\ ret = <<0>> => FLe(a0(v), z) /\ FLe(z, b0(v))

C10_BracketStaysInside ==
  /\ [](C10_Inside)
  /\ [][pc = "loop" => FLe(a, a') /\ FLe(b', b)]_vars

\* a call has returned 0 after moving both endpoints inwards
C10_Witness ==
  pc = "done" /\ ret = <<0>> /\ FLt(a0(v), a) /\ FLt(b, b0(v))

=============================================================================
